---- MODULE Spec2Model ----
(***************************************************************************)
(* A model of the pyxodr road-network engine of odrviewer: the two-pass    *)
(* construction and linking of roads (RoadNetwork.get_roads, _link_roads,  *)
(* Road._link_lane_sections) and the pure helpers of Lane, Road and        *)
(* utils/array.  Lengths are counted in tenths of a metre, so the          *)
(* partitioner's 0.1 is the integer 1.                                     *)
(***************************************************************************)
EXTENDS Integers, Sequences, FiniteSets, TLC

VARIABLES
    doc,                 \* the parsed document: one declaration per <road>, in document order
    connecting,          \* RoadNetwork.connecting_road_ids
    road_ids_to_object,  \* the arena: ids of the constructed Roads, in insertion order
    road_predecessor_data, road_successor_data,   \* Road.predecessor_data / successor_data
    ls_predecessor_data, ls_successor_data,       \* LaneSection.predecessor_data / successor_data
    pc,                  \* "idle" | "linking": where get_roads stands
    call,                \* the running (or last finished) get_roads call
    passes,              \* history: the arena and the links at the end of the last pass
    lane,                \* a Lane under test: its lane_xml and what its properties returned
    part,                \* a Road under test: its declared elements and what its properties returned
    path                 \* a call of a utils/array function: arguments and result

netVars == <<doc, connecting, road_ids_to_object, road_predecessor_data,
             road_successor_data, ls_predecessor_data, ls_successor_data, pc, call,
             passes>>

pureVars == <<lane, part, path>>

vars == <<netVars, pureVars>>

----------------------------------------------------------------------------
(* Bounds of the explored documents.                                       *)
MaxRoads == 2
MaxSections == 2
MaxDecls == 2

Roads == 1..MaxRoads
SectionCounts == {1, MaxSections}

----------------------------------------------------------------------------
(* ConnectionPosition and the link values.                                 *)

from_contact_point_str(contact_point_str) ==
    IF contact_point_str = "end" THEN "END"
    ELSE IF contact_point_str = "start" THEN "BEGINNING"
    ELSE "ValueError"

\* A ConnectionPosition whose index is 0 whatever the contact point.
ConnectionIndexAlwaysFirst(cp, n) == 1

\* ConnectionPosition.index used on a list of n lane sections: 0 or -1.
ConnectionIndex(cp, n) == IF cp = "BEGINNING" THEN 1 ELSE n

\* Road.__init__: (None, None).
UnlinkedRoadData == [road |-> 0, cp |-> "None"]

\* LaneSection link fields before the linking pass: (None, None).
UnlinkedSectionData == [sec |-> <<0, 0>>, cp |-> "None"]

RoadLink(r, cp) == [road |-> r, cp |-> cp]
SectionLink(s, cp) == [sec |-> s, cp |-> cp]

----------------------------------------------------------------------------
(* Documents.                                                              *)

JunctionElem == [elementType |-> "junction", elementId |-> 0, contactPoint |-> "none"]
RoadElems == [elementType : {"road"}, elementId : Roads, contactPoint : {"start", "end"}]
LinkElems == RoadElems \cup {JunctionElem}

\* What findall("predecessor") / findall("successor") can return.
ElemLists == {<<>>} \cup {<<e>> : e \in LinkElems} \cup {<<JunctionElem, JunctionElem>>}

RoadDecls ==
    {d \in [links : 0..2, preds : ElemLists, succs : ElemLists, nsec : SectionCounts] :
        d.links # 1 => (d.preds = <<>> /\ d.succs = <<>>)}

DeclWeight(d) == Len(d.preds) + Len(d.succs)

DeclsOfWeight == [w \in 0..4 |-> {d \in RoadDecls : DeclWeight(d) = w}]

\* d is prefix followed by n more roads that hold at most k predecessor/successor
\* elements between them.
\* Every road has a number of lane sections in counts.
RECURSIVE IsDocument(_, _, _, _, _)
IsDocument(d, prefix, n, k, counts) ==
    IF n = 0 THEN d = prefix
    ELSE \E w \in 0..(IF k < 4 THEN k ELSE 4) :
            \E decl \in DeclsOfWeight[w] :
                /\ decl.nsec \in counts
                /\ IsDocument(d, Append(prefix, decl), n - 1, k - w, counts)

----------------------------------------------------------------------------
(* Road._link_lane_sections, on the pair S = [p, s] of the lane sections'  *)
(* predecessor_data and successor_data.                                    *)

NSec(r) == doc[r].nsec
FirstSection(r) == <<r, 1>>
LastSection(r) == <<r, NSec(r)>>

\* A predecessor block that leaves a link of the connecting lane section in place.
LinkPredecessorKeepingLinks(r, RP, S) ==
    IF RP[r].road = 0 THEN S
    ELSE LET cp == RP[r].cp
             connecting_lane_section ==
                 <<RP[r].road, IF cp = "BEGINNING" THEN 1 ELSE doc[RP[r].road].nsec>>
             S1 == IF cp = "BEGINNING" /\ S.p[connecting_lane_section].cp = "None"
                   THEN [S EXCEPT !.p[connecting_lane_section] = [sec |-> <<r, 1>>, cp |-> "BEGINNING"]]
                   ELSE IF cp = "END" /\ S.s[connecting_lane_section].cp = "None"
                   THEN [S EXCEPT !.s[connecting_lane_section] = [sec |-> <<r, 1>>, cp |-> "BEGINNING"]]
                   ELSE S
         IN [S1 EXCEPT !.p[<<r, 1>>] = [sec |-> connecting_lane_section, cp |-> cp]]

LinkPredecessor(r, RP, S) ==
    IF RP[r].road = 0 THEN S
    ELSE LET predecessor_road == RP[r].road
             cp == RP[r].cp
             connecting_lane_section ==
                 <<predecessor_road, ConnectionIndex(cp, NSec(predecessor_road))>>
             S1 == IF cp = "BEGINNING"
                   THEN [S EXCEPT !.p[connecting_lane_section] =
                                      SectionLink(FirstSection(r), "BEGINNING")]
                   ELSE [S EXCEPT !.s[connecting_lane_section] =
                                      SectionLink(FirstSection(r), "BEGINNING")]
         IN [S1 EXCEPT !.p[FirstSection(r)] = SectionLink(connecting_lane_section, cp)]

RECURSIVE LinkPairsFrom(_, _, _)
LinkPairsFrom(r, i, S) ==
    IF i >= NSec(r) THEN S
    ELSE LinkPairsFrom(r, i + 1,
             [S EXCEPT !.s[<<r, i>>] = SectionLink(<<r, i + 1>>, "BEGINNING"),
                       !.p[<<r, i + 1>>] = SectionLink(<<r, i>>, "END")])

\* A pairing loop that undoes the first pair's link when it finds it made.
LinkPairsToggling(r, S) ==
    IF NSec(r) > 1 /\ S.s[<<r, 1>>].cp # "None"
    THEN [S EXCEPT !.s[<<r, 1>>] = UnlinkedSectionData]
    ELSE LinkPairsFrom(r, 1, S)

LinkPairs(r, S) == LinkPairsFrom(r, 1, S)

\* A successor block that sets this road's side of the link only.
LinkSuccessorOneWay(r, RS, S) ==
    IF RS[r].road = 0 THEN S
    ELSE LET cp == RS[r].cp
             connecting_lane_section ==
                 <<RS[r].road, ConnectionIndex(cp, NSec(RS[r].road))>>
         IN [S EXCEPT !.s[LastSection(r)] = SectionLink(connecting_lane_section, cp)]

\* A successor block that records this road's last section at BEGINNING.
LinkSuccessorFromBeginning(r, RS, S) ==
    IF RS[r].road = 0 THEN S
    ELSE LET cp == RS[r].cp
             connecting_lane_section ==
                 <<RS[r].road, IF cp = "BEGINNING" THEN 1 ELSE doc[RS[r].road].nsec>>
             S1 == [S EXCEPT !.s[<<r, doc[r].nsec>>] = [sec |-> connecting_lane_section, cp |-> cp]]
         IN IF cp = "BEGINNING"
            THEN [S1 EXCEPT !.p[connecting_lane_section] =
                                [sec |-> <<r, doc[r].nsec>>, cp |-> "BEGINNING"]]
            ELSE [S1 EXCEPT !.s[connecting_lane_section] =
                                [sec |-> <<r, doc[r].nsec>>, cp |-> "BEGINNING"]]

LinkSuccessor(r, RS, S) ==
    IF RS[r].road = 0 THEN S
    ELSE LET successor_road == RS[r].road
             cp == RS[r].cp
             connecting_lane_section ==
                 <<successor_road, ConnectionIndex(cp, NSec(successor_road))>>
             S1 == [S EXCEPT !.s[LastSection(r)] = SectionLink(connecting_lane_section, cp)]
         IN IF cp = "BEGINNING"
            THEN [S1 EXCEPT !.p[connecting_lane_section] =
                                SectionLink(LastSection(r), "END")]
            ELSE [S1 EXCEPT !.s[connecting_lane_section] =
                                SectionLink(LastSection(r), "END")]

LinkLaneSections(r, RP, RS, S) ==
    LinkSuccessor(r, RS, LinkPairs(r, LinkPredecessor(r, RP, S)))

----------------------------------------------------------------------------
(* One iteration of the loop of RoadNetwork._link_roads, for road r.       *)

Registered(r) == \E i \in 1..Len(road_ids_to_object) : road_ids_to_object[i] = r

IsRoadElem(xmls) == Len(xmls) = 1 /\ xmls[1].elementType = "road"

\* A length test that lets two elements through.
MoreThanTwo(n) == n > 2

\* The test "len(...) > 1" that guards each of the three ValueErrors.
MoreThanOne(n) == n > 1

LinkRoadResult(r) ==
    LET d == doc[r]
        S == [p |-> ls_predecessor_data, s |-> ls_successor_data]
        same == [err |-> "none", rp |-> road_predecessor_data,
                 rs |-> road_successor_data, S |-> S]
    IN IF d.links = 0 THEN same
       ELSE IF MoreThanOne(d.links) THEN [same EXCEPT !.err = "ValueError"]
       ELSE IF MoreThanOne(Len(d.preds)) THEN [same EXCEPT !.err = "ValueError"]
       ELSE IF MoreThanOne(Len(d.succs)) THEN [same EXCEPT !.err = "ValueError"]
       ELSE IF IsRoadElem(d.preds) /\ ~Registered(d.preds[1].elementId)
            THEN [same EXCEPT !.err = "KeyError"]
       ELSE LET rp == IF IsRoadElem(d.preds)
                      THEN [road_predecessor_data EXCEPT ![r] =
                               RoadLink(d.preds[1].elementId,
                                        from_contact_point_str(d.preds[1].contactPoint))]
                      ELSE road_predecessor_data
            IN IF IsRoadElem(d.succs) /\ ~Registered(d.succs[1].elementId)
               THEN [same EXCEPT !.err = "KeyError", !.rp = rp]
               ELSE LET rs == IF IsRoadElem(d.succs)
                              THEN [road_successor_data EXCEPT ![r] =
                                       RoadLink(d.succs[1].elementId,
                                                from_contact_point_str(d.succs[1].contactPoint))]
                              ELSE road_successor_data
                    IN [err |-> "none", rp |-> rp, rs |-> rs,
                        S |-> LinkLaneSections(r, rp, rs, S)]

----------------------------------------------------------------------------
(* RoadNetwork.get_roads.                                                  *)

RECURSIVE SelectSeq2(_, _)
SelectSeq2(s, avoid) ==
    IF s = <<>> THEN <<>>
    ELSE IF Head(s) \in avoid THEN SelectSeq2(Tail(s), avoid)
    ELSE <<Head(s)>> \o SelectSeq2(Tail(s), avoid)

DocumentRoadIds == [i \in 1..Len(doc) |-> i]

ids_to_avoid(include_connecting_roads) ==
    IF ~include_connecting_roads THEN connecting ELSE {}

\* A loop that skips no road.
SelectedWithoutFilter(include_connecting_roads) == DocumentRoadIds

\* The roads the loop of get_roads selects, in document order.
SelectedRoads(include_connecting_roads) ==
    SelectSeq2(DocumentRoadIds, ids_to_avoid(include_connecting_roads))

SeqRange(s) == {s[i] : i \in 1..Len(s)}

\* A loop that constructs a Road for every selected element.
ConstructAll(arena, selected) == arena \o selected

\* The arena after the construction loop: new roads are appended in document order.
RegisterAll(arena, selected) ==
    arena \o SelectSeq2(selected, SeqRange(arena))

\* A linking loop that is left after its first road.
PassFinishedAfterFirst == call.pos > 1 \/ call.pos > Len(road_ids_to_object)

\* The loop of _link_roads is exhausted: it runs over road_ids_to_object.values().
PassFinished == call.pos > Len(road_ids_to_object)

IdleCall == [roads |-> <<>>, pos |-> 0, linked |-> {}, outcome |-> "none",
             returned |-> <<>>, raisedAt |-> 0, ids_to_avoid |-> {}]

\* repeat: the pass ended over the arena the pass before it ended over.
NoPass == [arena |-> <<>>, rp |-> <<>>, rs |-> <<>>, lp |-> <<>>, ls |-> <<>>,
           repeat |-> FALSE]

PassEnd(arena, rp, rs, lp, ls) ==
    [arena |-> arena, rp |-> rp, rs |-> rs, lp |-> lp, ls |-> ls,
     repeat |-> passes # NoPass /\ passes.arena = arena]

GetRoadsConstruct(include_connecting_roads) ==
    /\ pc = "idle"
    /\ road_ids_to_object' =
           RegisterAll(road_ids_to_object, SelectedRoads(include_connecting_roads))
    /\ call' = [IdleCall EXCEPT !.roads = SelectedRoads(include_connecting_roads),
                                !.pos = 1,
                                !.ids_to_avoid = ids_to_avoid(include_connecting_roads)]
    /\ pc' = "linking"
    /\ UNCHANGED <<doc, connecting, road_predecessor_data, road_successor_data,
                   ls_predecessor_data, ls_successor_data, passes, pureVars>>

\* A linking step that takes the road it visits out of the arena.
LinkRoadUnregistering ==
    /\ pc = "linking"
    /\ ~PassFinished
    /\ road_ids_to_object' = SelectSeq2(road_ids_to_object, {road_ids_to_object[call.pos]})
    /\ UNCHANGED <<doc, connecting, road_predecessor_data, road_successor_data,
                   ls_predecessor_data, ls_successor_data, call, pc, passes, pureVars>>

LinkRoad ==
    /\ pc = "linking"
    /\ ~PassFinished
    /\ LET r == road_ids_to_object[call.pos]
           res == LinkRoadResult(r)
       IN /\ road_predecessor_data' = res.rp
          /\ road_successor_data' = res.rs
          /\ ls_predecessor_data' = res.S.p
          /\ ls_successor_data' = res.S.s
          /\ IF res.err = "none"
             THEN /\ call' = [call EXCEPT !.pos = @ + 1, !.linked = @ \cup {r}]
                  /\ pc' = "linking"
                  /\ UNCHANGED passes
             ELSE /\ call' = [call EXCEPT !.pos = 0, !.roads = <<>>,
                                          !.outcome = res.err, !.raisedAt = r,
                                          !.ids_to_avoid = {}]
                  /\ pc' = "idle"
                  /\ passes' = PassEnd(road_ids_to_object, res.rp, res.rs,
                                       res.S.p, res.S.s)
    /\ UNCHANGED <<doc, connecting, road_ids_to_object, pureVars>>

GetRoadsReturn ==
    /\ pc = "linking"
    /\ PassFinished
    /\ call' = [call EXCEPT !.pos = 0, !.roads = <<>>, !.outcome = "ok",
                            !.returned = call.roads]
    /\ pc' = "idle"
    /\ passes' = PassEnd(road_ids_to_object, road_predecessor_data, road_successor_data,
                         ls_predecessor_data, ls_successor_data)
    /\ UNCHANGED <<doc, connecting, road_ids_to_object, road_predecessor_data,
                   road_successor_data, ls_predecessor_data, ls_successor_data, pureVars>>

Sections == Roads \X (1..MaxSections)

NoLane == [phase |-> "unused"]
NoPart == [phase |-> "unused"]
NoPath == [phase |-> "unused"]

InitNetwork(connectingSets, counts) ==
    /\ IsDocument(doc, <<>>, MaxRoads, MaxDecls, counts)
    /\ connecting \in connectingSets
    /\ road_ids_to_object = <<>>
    /\ road_predecessor_data = [r \in Roads |-> UnlinkedRoadData]
    /\ road_successor_data = [r \in Roads |-> UnlinkedRoadData]
    /\ ls_predecessor_data = [s \in Sections |-> UnlinkedSectionData]
    /\ ls_successor_data = [s \in Sections |-> UnlinkedSectionData]
    /\ pc = "idle"
    /\ call = IdleCall
    /\ passes = NoPass
    /\ lane = NoLane
    /\ part = NoPart
    /\ path = NoPath

NextNetwork ==
    \/ \E include_connecting_roads \in BOOLEAN : GetRoadsConstruct(include_connecting_roads)
    \/ LinkRoad
    \/ GetRoadsReturn

\* Documents without junction connecting roads: every call selects every road.
Init == InitNetwork({{}}, SectionCounts)

Next == NextNetwork

Spec == Init /\ [][Next]_vars

\* Documents of single-section roads, any of which may be a junction's connecting road.
InitNet == InitNetwork(SUBSET Roads, {1})

SpecNet == InitNet /\ [][NextNetwork]_vars

----------------------------------------------------------------------------
(* Lane: the lane_xml element, the section reference line handed to the    *)
(* constructor, and the properties computed from them.                     *)

MaxLaneId == 1
MaxLinkIds == 2
MaxMarks == 3
MaxRefPoints == 3
MaxPieces == 2

LaneIds == (0 - MaxLaneId)..MaxLaneId

RECURSIVE SeqsUpTo(_, _)
SeqsUpTo(S, n) ==
    IF n = 0 THEN {<<>>}
    ELSE LET shorter == SeqsUpTo(S, n - 1)
         IN shorter \cup {Append(q, x) : q \in {t \in shorter : Len(t) = n - 1}, x \in S}

\* The <link> child: absent, or the ids of its <successor> and <predecessor> children.
NoLinkXml == [present |-> FALSE, successor |-> <<>>, predecessor |-> <<>>]
LinkXmls ==
    {NoLinkXml} \cup
    [present : {TRUE}, successor : SeqsUpTo(LaneIds, MaxLinkIds),
     predecessor : SeqsUpTo(LaneIds, MaxLinkIds)]

\* A <roadMark> child: sOffset is <<>> when the attribute is missing.
MarkOffsets == {0, 2, 5}
RoadMarkXmls == [sOffset : {<<>>} \cup {<<o>> : o \in MarkOffsets}, type : {"solid", "broken"}]

\* lane_section_reference_line: None, or an array of so many points.
NoReferenceLine == [given |-> FALSE, points |-> 0]
ReferenceLines == {NoReferenceLine} \cup [given : {TRUE}, points : 0..MaxRefPoints]

LaneXml(id, link, type, widths, borders, roadMarks) ==
    [id |-> id, link |-> link, type |-> type, widths |-> widths, borders |-> borders,
     roadMarks |-> roadMarks]

NewLane(lane_xml, lane_section_reference_line) ==
    [lane_xml |-> lane_xml, lane_section_reference_line |-> lane_section_reference_line,
     op |-> "none", result |-> [kind |-> "none", ids |-> <<>>, marks |-> <<>>]]

TwoPointLine == [given |-> TRUE, points |-> 2]

\* The lanes explored: any id and link element; any list of road marks; any
\* combination of reference line, width and border records and type.
LanesWithLinks ==
    {NewLane(LaneXml(id, link, "driving", 1, 0, <<>>), TwoPointLine) :
        id \in LaneIds, link \in LinkXmls}
LanesWithMarks ==
    {NewLane(LaneXml(0 - 1, NoLinkXml, "driving", 1, 0, marks), TwoPointLine) :
        marks \in SeqsUpTo(RoadMarkXmls, MaxMarks)}
LanesWithShapes ==
    {NewLane(LaneXml(0 - 1, NoLinkXml, type, widths, borders, <<>>), line) :
        type \in {"none", "driving", "border"}, widths \in 0..MaxPieces,
        borders \in 0..MaxPieces, line \in ReferenceLines}

\* A loop that keeps every declared id.
KeepAllIds(ids) == ids

\* The loop of _get_connecting_ids: ids other than 0, in document order.
RECURSIVE NonZeroIds(_)
NonZeroIds(ids) ==
    IF ids = <<>> THEN <<>>
    ELSE IF Head(ids) # 0 THEN <<Head(ids)>> \o NonZeroIds(Tail(ids))
    ELSE NonZeroIds(Tail(ids))

_get_connecting_ids(l, connecting_key) ==
    IF ~l.lane_xml.link.present THEN <<>>
    ELSE IF l.lane_xml.id = 0 THEN <<>>
    ELSE NonZeroIds(IF connecting_key = "successor" THEN l.lane_xml.link.successor
                    ELSE l.lane_xml.link.predecessor)

\* float(road_mark_xml.get("sOffset", 0.0))
s_offset(road_mark_xml) ==
    IF road_mark_xml.sOffset = <<>> THEN 0 ELSE road_mark_xml.sOffset[1]

RoadMark(road_mark_xml) == [s_offset |-> s_offset(road_mark_xml), type |-> road_mark_xml.type]

\* sorted(..., key): stable; x goes after every element whose key is not larger.
RECURSIVE InsertByOffset(_, _)
InsertByOffset(sorted, x) ==
    IF sorted = <<>> THEN <<x>>
    ELSE IF Head(sorted).s_offset <= x.s_offset
         THEN <<Head(sorted)>> \o InsertByOffset(Tail(sorted), x)
         ELSE <<x>> \o sorted

RECURSIVE SortedByOffset(_)
SortedByOffset(marks) ==
    IF marks = <<>> THEN <<>>
    ELSE InsertByOffset(SortedByOffset(SubSeq(marks, 1, Len(marks) - 1)), marks[Len(marks)])

\* A road_marks that returns the marks in document order.
InDocumentOrder(marks) == marks

OrderedMarks(marks) == SortedByOffset(marks)

road_marks(l) ==
    OrderedMarks([i \in 1..Len(l.lane_xml.roadMarks) |-> RoadMark(l.lane_xml.roadMarks[i])])

\* Lane.type: "none" reads as None.
LaneTypeIsNone(l) == l.lane_xml.type = "none"

\* A check that rejects a lane only when it has neither representation.
UsesNone(lane_uses_widths, lane_uses_borders) == ~lane_uses_widths /\ ~lane_uses_borders

\* "lane_uses_widths and lane_uses_borders"
UsesBoth(lane_uses_widths, lane_uses_borders) == lane_uses_widths /\ lane_uses_borders

\* What get_boundary_line_segment does: "None", the error it raises,
\* "reference_line" (returned as is) or "boundary" (computed by MultiGeom).
get_boundary_line_segment(l) ==
    LET lane_uses_widths == l.lane_xml.widths # 0
        lane_uses_borders == l.lane_xml.borders # 0
    IN IF ~l.lane_section_reference_line.given THEN "None"
       ELSE IF l.lane_section_reference_line.points < 2 THEN "IndexError"
       ELSE IF UsesBoth(lane_uses_widths, lane_uses_borders) THEN "NotImplementedError"
       ELSE IF ~lane_uses_widths /\ ~lane_uses_borders
            THEN IF LaneTypeIsNone(l) THEN "reference_line" ELSE "NotImplementedError"
       ELSE "boundary"

IdsResult(ids) == [kind |-> "ids", ids |-> ids, marks |-> <<>>]
MarksResult(marks) == [kind |-> "marks", ids |-> <<>>, marks |-> marks]
OutcomeResult(kind) == [kind |-> kind, ids |-> <<>>, marks |-> <<>>]

successor_ids ==
    /\ lane' = [lane EXCEPT !.op = "successor_ids",
                            !.result = IdsResult(_get_connecting_ids(lane, "successor"))]
    /\ UNCHANGED <<netVars, part, path>>

predecessor_ids ==
    /\ lane' = [lane EXCEPT !.op = "predecessor_ids",
                            !.result = IdsResult(_get_connecting_ids(lane, "predecessor"))]
    /\ UNCHANGED <<netVars, part, path>>

RoadMarks ==
    /\ lane' = [lane EXCEPT !.op = "road_marks", !.result = MarksResult(road_marks(lane))]
    /\ UNCHANGED <<netVars, part, path>>

GetBoundaryLineSegment ==
    /\ lane' = [lane EXCEPT !.op = "get_boundary_line_segment",
                            !.result = OutcomeResult(get_boundary_line_segment(lane))]
    /\ UNCHANGED <<netVars, part, path>>

\* No network is loaded while a pure helper is exercised.
NoNetwork ==
    /\ doc = <<>>
    /\ connecting = {}
    /\ road_ids_to_object = <<>>
    /\ road_predecessor_data = <<>>
    /\ road_successor_data = <<>>
    /\ ls_predecessor_data = <<>>
    /\ ls_successor_data = <<>>
    /\ pc = "idle"
    /\ call = IdleCall
    /\ passes = NoPass

InitLane ==
    /\ NoNetwork
    /\ lane \in LanesWithLinks \cup LanesWithMarks \cup LanesWithShapes
    /\ part = NoPart
    /\ path = NoPath

NextLane == successor_ids \/ predecessor_ids \/ RoadMarks \/ GetBoundaryLineSegment

SpecLane == InitLane /\ [][NextLane]_vars

----------------------------------------------------------------------------
(* Python lists.                                                           *)

\* seq[idx] in Python: negative indices count from the end.
At(seq, idx) == IF idx >= 0 THEN seq[idx + 1] ELSE seq[Len(seq) + idx + 1]

----------------------------------------------------------------------------
(* utils/array: interpolate_path on paths along the x axis.                *)

MaxVertices == 3
MaxCoord == 3
MaxStep == 3

\* hstack([0], cumsum(norm(diff(vertices)))): the chord length up to each vertex.
RECURSIVE CumulativeChords(_)
CumulativeChords(vertices) ==
    IF Len(vertices) <= 1 THEN <<0>>
    ELSE LET n == Len(vertices)
             before == CumulativeChords(SubSeq(vertices, 1, n - 1))
             step == vertices[n] - vertices[n - 1]
         IN Append(before, before[n - 1] + (IF step < 0 THEN 0 - step ELSE step))

\* path_vertices[sorted(idxs)] of np.unique: the first occurrence of every vertex,
\* in path order.
RECURSIVE FirstOccurrences(_)
FirstOccurrences(vertices) ==
    IF vertices = <<>> THEN <<>>
    ELSE LET n == Len(vertices)
             before == FirstOccurrences(SubSeq(vertices, 1, n - 1))
         IN IF \E i \in 1..Len(before) : before[i] = vertices[n]
            THEN before
            ELSE Append(before, vertices[n])

\* np.arange(0, stop, step): 0, step, 2 step, ... below stop.
arange(stop, step) == [k \in 1..((stop + step - 1) \div step) |-> (k - 1) * step]

\* interp1d (linear) over at least two knots, evaluated at x_new inside them.
interp_func(ss, vertices, x_new) ==
    LET found == Cardinality({i \in 1..Len(ss) : ss[i] < x_new})
        hi == IF found < 1 THEN 1 ELSE IF found > Len(ss) - 1 THEN Len(ss) - 1 ELSE found
        lo == hi - 1
    IN vertices[lo + 1] +
         ((vertices[hi + 1] - vertices[lo + 1]) * (x_new - ss[lo + 1]))
         \div (ss[hi + 1] - ss[lo + 1])

\* "if len(new_distance) < 2: new_distance = [0.0, ss[-1]]"
AtLeastTwoDistances(new_distance, length) ==
    IF Len(new_distance) < 2 THEN <<0, length>> ELSE new_distance

PointsResult(points) == [kind |-> "points", rows |-> Len(points), points |-> points]

\* The outcomes of interpolate_path.  With a single knot every slope is 0/0:
\* interp1d either refuses the knots (ValueError) or returns rows of NaN,
\* depending on the library version.
\* The distances along the de-duplicated path at which it is sampled.
new_distances(path_vertices, resolution) ==
    LET ss == CumulativeChords(FirstOccurrences(path_vertices))
    IN AtLeastTwoDistances(arange(ss[Len(ss)], resolution), ss[Len(ss)])

interpolate_path(path_vertices, resolution) ==
    LET vertices == FirstOccurrences(path_vertices)
        ss == CumulativeChords(vertices)
        new_distance == new_distances(path_vertices, resolution)
    IN IF Len(vertices) < 2
       THEN {[kind |-> "ValueError", rows |-> 0, points |-> <<>>],
             [kind |-> "nan", rows |-> Len(new_distance), points |-> <<>>]}
       ELSE {PointsResult([i \in 1..Len(new_distance) |->
                              interp_func(ss, vertices, new_distance[i])])}

Paths == SeqsUpTo(0..MaxCoord, MaxVertices) \ {<<>>}

InterpolatePath ==
    /\ path.phase = "called"
    /\ \E result \in interpolate_path(path.path_vertices, path.resolution) :
          path' = [path EXCEPT !.phase = "done", !.result = result]
    /\ UNCHANGED <<netVars, lane, part>>

InitPath ==
    /\ NoNetwork
    /\ lane = NoLane
    /\ part = NoPart
    /\ \E path_vertices \in Paths, resolution \in 1..MaxStep :
          path = [phase |-> "called", path_vertices |-> path_vertices,
                  resolution |-> resolution, result |-> PointsResult(<<>>)]

NextPath == InterpolatePath

SpecPath == InitPath /\ [][NextPath]_vars

----------------------------------------------------------------------------
(* utils/array: fix_zero_directions on arrays of 2-D direction rows.       *)

MaxRows == 4

DirectionRows == {<<0, 0>>, <<1, 0>>, <<0, 1>>}

\* (row == 0).all()
IsZeroRow(row) == \A k \in 1..Len(row) : row[k] = 0

\* (dirs == 0).all(1).sum()
ZeroRows(dirs) == Cardinality({i \in 1..Len(dirs) : IsZeroRow(dirs[i])})

\* A loop body that tries the following row before the preceding one.
FixRowFromNext(dirs, i) ==
    IF \A k \in 1..Len(dirs[i + 1]) : dirs[i + 1][k] = 0
    THEN IF \E k \in 1..Len(dirs[i + 2]) : dirs[i + 2][k] # 0
         THEN [dirs EXCEPT ![i + 1] = dirs[i + 2]]
         ELSE IF \E k \in 1..Len(dirs[i]) : dirs[i][k] # 0
         THEN [dirs EXCEPT ![i + 1] = dirs[i]]
         ELSE dirs
    ELSE dirs

\* The body of both inner loops, at Python index i.
FixRow(dirs, i) ==
    IF IsZeroRow(At(dirs, i))
    THEN IF ~IsZeroRow(At(dirs, i - 1)) THEN [dirs EXCEPT ![i + 1] = At(dirs, i - 1)]
         ELSE IF ~IsZeroRow(At(dirs, i + 1)) THEN [dirs EXCEPT ![i + 1] = At(dirs, i + 1)]
         ELSE dirs
    ELSE dirs

\* for i in range(1, n - 1), from i on.
RECURSIVE ForwardPass(_, _)
ForwardPass(dirs, i) ==
    IF i >= Len(dirs) - 1 THEN dirs ELSE ForwardPass(FixRow(dirs, i), i + 1)

\* for i in reversed(range(1, n - 1)), from i down.
RECURSIVE BackwardPass(_, _)
BackwardPass(dirs, i) ==
    IF i < 1 THEN dirs ELSE BackwardPass(FixRow(dirs, i), i - 1)

\* (dirs[1:-1] == 0).all(1).sum() == 0
InteriorFixed(dirs) == \A i \in 2..(Len(dirs) - 1) : ~IsZeroRow(dirs[i])

\* for _ in range(1, n - 1), from the k-th cycle on.
RECURSIVE Cycles(_, _)
Cycles(dirs, k) ==
    IF k >= Len(dirs) - 1 THEN dirs
    ELSE LET forward == ForwardPass(dirs, 1)
         IN IF InteriorFixed(forward) THEN forward
            ELSE LET backward == BackwardPass(forward, Len(dirs) - 2)
                 IN IF InteriorFixed(backward) THEN backward
                    ELSE Cycles(backward, k + 1)

\* A repair that leaves the first and the last row as the cycles left them.
KeepEnds(dirs) == dirs

\* The two assignments after the cycles: dirs[0] = dirs[1], dirs[-1] = dirs[-2].
FixEnds(dirs) ==
    LET first == IF IsZeroRow(At(dirs, 0)) THEN [dirs EXCEPT ![1] = At(dirs, 1)] ELSE dirs
    IN IF IsZeroRow(At(first, 0 - 1))
       THEN [first EXCEPT ![Len(first)] = At(first, 0 - 2)]
       ELSE first

\* [kind, dirs]: the array returned, or the error raised.
fix_zero_directions(dirs) ==
    IF ZeroRows(dirs) = 0 THEN [kind |-> "array", dirs |-> dirs]
    ELSE IF ZeroRows(dirs) = Len(dirs) THEN [kind |-> "ValueError", dirs |-> <<>>]
    ELSE [kind |-> "array", dirs |-> FixEnds(Cycles(dirs, 1))]

DirectionArrays == SeqsUpTo(DirectionRows, MaxRows) \ {<<>>}

FixZeroDirections ==
    /\ path.phase = "called"
    /\ path' = [path EXCEPT !.phase = "done", !.result = fix_zero_directions(path.dirs)]
    /\ UNCHANGED <<netVars, lane, part>>

InitDirs ==
    /\ NoNetwork
    /\ lane = NoLane
    /\ part = NoPart
    /\ \E dirs \in DirectionArrays :
          path = [phase |-> "called", dirs |-> dirs,
                  result |-> [kind |-> "none", dirs |-> <<>>]]

NextDirs == FixZeroDirections

SpecDirs == InitDirs /\ [][NextDirs]_vars

----------------------------------------------------------------------------
(* Road: the partition of the sampled reference line into lane sections.   *)
(* The road runs straight along the x axis from the origin, so a sample is *)
(* the number x; list indices are Python's, counted from 0.                *)

MaxResolution == 2
MaxSamples == 4
MaxSectionDecls == 3
MaxStart == 7

\* The fallback's 0.1, in tenths.
FallbackEpsilon == 1

\* The samples of a straight reference line, one every resolution.
StraightLine(resolution, samples) == [i \in 1..samples |-> (i - 1) * resolution]

\* cumsum of the norms of the differences, with 0 inserted in front.
reference_line_distances(reference_line) == CumulativeChords(reference_line)

\* np.searchsorted on a sorted array.
searchsorted(lengths, v, side) ==
    IF side = "left" THEN Cardinality({i \in 1..Len(lengths) : lengths[i] < v})
    ELSE Cardinality({i \in 1..Len(lengths) : lengths[i] <= v})

interpolate_point(linestring, lengths, exact_distance, distance_index) ==
    At(linestring, distance_index - 1) +
      ((exact_distance - At(lengths, distance_index - 1)) *
       (At(linestring, distance_index) - At(linestring, distance_index - 1)))
      \div (At(lengths, distance_index) - At(lengths, distance_index - 1))

\* [err, points]: the sub-linestring between start and end, or the error raised.
get_sub_linestring(linestring, lengths, start, end) ==
    LET start_idx == searchsorted(lengths, start, "left")
        end_idx == searchsorted(lengths, end, "right")
    IN IF start_idx = 0 /\ end_idx = Len(lengths) - 1
       THEN [err |-> "none", points |-> linestring]
       ELSE IF start_idx >= Len(lengths) THEN [err |-> "IndexError", points |-> <<>>]
       ELSE LET reuse_start_point == At(lengths, start_idx) = start \/ start_idx = 0
                reuse_end_point == At(lengths, end_idx - 1) = end \/ end_idx = Len(lengths)
                sliced == SubSeq(linestring, start_idx + 1, end_idx)
                from_start ==
                    IF ~reuse_start_point
                    THEN <<interpolate_point(linestring, lengths, start, start_idx)>> \o sliced
                    ELSE sliced
                sub_linestring ==
                    IF ~reuse_end_point
                    THEN Append(from_start, interpolate_point(linestring, lengths, end, end_idx))
                    ELSE from_start
            IN IF Len(sub_linestring) < 2
               THEN [err |-> "RuntimeError", points |-> <<>>]
               ELSE [err |-> "none", points |-> sub_linestring]

\* A partitioner that keeps a declared end beyond the reference line.
KeepEnd(end_length, reference_line_length) == end_length

\* "if end_length > reference_line_length: end_length = reference_line_length"
ClampEnd(end_length, reference_line_length) ==
    IF end_length > reference_line_length THEN reference_line_length ELSE end_length

\* A fallback that moves the start onto the end.
FallbackOntoEnd(start_length, end_length) ==
    IF start_length >= end_length THEN end_length ELSE start_length

\* A partitioner that keeps the declared start of an empty range.
KeepStart(start_length, end_length) == start_length

\* "if start_length >= end_length: start_length = end_length - 0.1"
FallbackStart(start_length, end_length) ==
    IF start_length >= end_length THEN end_length - FallbackEpsilon ELSE start_length

\* The loop over the laneSection elements, from the i-th on: [err, sections].
RECURSIVE PartitionFrom(_, _, _, _)
PartitionFrom(i, lane_section_distances, reference_line, lane_section_tuples) ==
    IF i >= Len(lane_section_distances) THEN [err |-> "none", sections |-> lane_section_tuples]
    ELSE LET lengths == reference_line_distances(reference_line)
             end_length == ClampEnd(lane_section_distances[i + 1], lengths[Len(lengths)])
             start_length ==
                 FallbackStart(FallbackStart(lane_section_distances[i], end_length), end_length)
             sub == get_sub_linestring(reference_line, lengths, start_length, end_length)
         IN IF sub.err # "none" THEN [err |-> sub.err, sections |-> <<>>]
            ELSE PartitionFrom(i + 1, lane_section_distances, reference_line,
                     Append(lane_section_tuples,
                            [s_start |-> start_length, s_end |-> end_length,
                             reference_line |-> sub.points]))

\* The declared starts followed by the reference-line length.
partition_into_lane_sections(starts, reference_line) ==
    LET lengths == reference_line_distances(reference_line)
    IN PartitionFrom(1, Append(starts, lengths[Len(lengths)]), reference_line, <<>>)

SectionStarts == SeqsUpTo(0..MaxStart, MaxSectionDecls) \ {<<>>}

\* Road.lane_sections, computed once.
LaneSections ==
    /\ part.phase = "declared"
    /\ LET res == partition_into_lane_sections(part.starts, part.reference_line)
       IN part' = [part EXCEPT !.phase = IF res.err = "none" THEN "partitioned" ELSE res.err,
                               !.lane_sections = res.sections]
    /\ UNCHANGED <<netVars, lane, path>>

InitPart ==
    /\ NoNetwork
    /\ lane = NoLane
    /\ \E resolution \in 1..MaxResolution, samples \in 2..MaxSamples, starts \in SectionStarts :
          part = [phase |-> "declared", starts |-> starts,
                  reference_line |-> StraightLine(resolution, samples),
                  lane_sections |-> <<>>]
    /\ path = NoPath

NextPart == LaneSections

SpecPart == InitPart /\ [][NextPart]_vars

----------------------------------------------------------------------------
(* Road: the geometry segments of the plan view and their concatenation.   *)

MaxGeometries == 2
MaxGeometryS == 2

GeometryVariants == {"line", "arc", "poly3", "paramPoly3", "spiral"}

\* A planView/geometry element: its s attribute and the name of its child.
GeometryXmls == [s : 0..MaxGeometryS, child : GeometryVariants \cup {"other"}]

PlanViews == SeqsUpTo(GeometryXmls, MaxGeometries) \ {<<>>}

\* The loop over findall("planView/geometry"): the elements become geometries in
\* document order.  The argsort of their distances is computed and dropped.
reference_line_geometries(plan_view) ==
    IF \E i \in 1..Len(plan_view) : plan_view[i].child \notin GeometryVariants
    THEN [err |-> "NotImplementedError", geometries |-> <<>>]
    ELSE [err |-> "none", geometries |-> plan_view]

\* The loop of reference_line: one block of coordinates per geometry, stacked in
\* the order of the list.  A block is named by the s of its geometry.
StackedBlocks(geometries) == [i \in 1..Len(geometries) |-> geometries[i].s]

ReferenceLineGeometries ==
    /\ part.phase = "plan_view"
    /\ LET res == reference_line_geometries(part.plan_view)
       IN part' = [part EXCEPT !.phase = IF res.err = "none" THEN "geometries" ELSE res.err,
                               !.geometries = res.geometries]
    /\ UNCHANGED <<netVars, lane, path>>

ReferenceLine ==
    /\ part.phase = "geometries"
    /\ part' = [part EXCEPT !.phase = "reference_line",
                            !.stacked = StackedBlocks(part.geometries)]
    /\ UNCHANGED <<netVars, lane, path>>

InitGeom ==
    /\ NoNetwork
    /\ lane = NoLane
    /\ \E plan_view \in PlanViews :
          part = [phase |-> "plan_view", plan_view |-> plan_view, geometries |-> <<>>,
                  stacked |-> <<>>]
    /\ path = NoPath

NextGeom == ReferenceLineGeometries \/ ReferenceLine

SpecGeom == InitGeom /\ [][NextGeom]_vars

----------------------------------------------------------------------------
(* Road.get_coordinate_and_direction, on a reference line along the x axis. *)

\* np.diff(line, axis=0)
diff(line) == [i \in 1..(Len(line) - 1) |-> line[i + 1] - line[i]]

\* An index that is used as searchsorted returns it.
KeepIndex(s_index, n) == s_index

\* "if s_index >= len(self.reference_line): s_index = len(self.reference_line) - 1"
ClampIndex(s_index, n) == IF s_index >= n THEN n - 1 ELSE s_index

\* "if dir_index == len(self.reference_line) - 1: dir_index -= 1"
DirectionIndex(s_index, n) == IF s_index = n - 1 THEN s_index - 1 ELSE s_index

\* Indexing an array of n entries with idx, as Python does.
InRange(idx, n) == 0 - n <= idx /\ idx < n

\* [kind, s_index, dir_index, point, direction]
get_coordinate_and_direction(reference_line, s) ==
    LET reference_line_direction_vectors == diff(reference_line)
        distances == reference_line_distances(reference_line)
        n == Len(reference_line)
        s_index == ClampIndex(searchsorted(distances, s, "left"), n)
        dir_index == DirectionIndex(s_index, n)
    IN IF ~InRange(s_index, n) \/ ~InRange(dir_index, n - 1)
       THEN [kind |-> "IndexError", s_index |-> s_index, dir_index |-> dir_index,
             point |-> 0, direction |-> 0]
       ELSE [kind |-> "ok", s_index |-> s_index, dir_index |-> dir_index,
             point |-> At(reference_line, s_index),
             direction |-> At(reference_line_direction_vectors, dir_index)]

GetCoordinateAndDirection ==
    /\ path.phase = "called"
    /\ path' = [path EXCEPT !.phase = "done",
                            !.result = get_coordinate_and_direction(path.reference_line, path.s)]
    /\ UNCHANGED <<netVars, lane, part>>

InitCoord ==
    /\ NoNetwork
    /\ lane = NoLane
    /\ part = NoPart
    /\ \E reference_line \in Paths, s \in (0 - 1)..MaxStart :
          path = [phase |-> "called", reference_line |-> reference_line, s |-> s,
                  result |-> [kind |-> "none", s_index |-> 0, dir_index |-> 0,
                              point |-> 0, direction |-> 0]]

NextCoord == GetCoordinateAndDirection

SpecCoord == InitCoord /\ [][NextCoord]_vars

----------------------------------------------------------------------------
(* Road: the lane offset line and the elevation of the reference line.     *)

MaxProfiles == 1
MaxOffset == 1

\* A laneOffset or elevation element: its s and the coefficient a of its polynomial
\* (b, c and d are 0).
ProfileXmls == [s : 0..MaxGeometryS, a : 1..MaxOffset]
Profiles == SeqsUpTo(ProfileXmls, MaxProfiles)

\* The sampled reference line as rows (x, y): a straight road along the x axis.
PlanarLine(resolution, samples) ==
    [i \in 1..samples |-> <<StraightLine(resolution, samples)[i], 0>>]

\* reference_line[:, 0]
FirstColumn(line) == [i \in 1..Len(line) |-> line[i][1]]

\* MultiGeom: the value at distance d is that of the last member that starts at or
\* before d, and of the first member when none does.
MultiGeomValue(geometries, d) ==
    LET started == {k \in 1..Len(geometries) : geometries[k].s <= d}
    IN IF started = {} THEN geometries[1].a
       ELSE geometries[CHOOSE k \in started : \A m \in started : m <= k].a

\* Offsets projected to the left of a line that runs along the x axis.
global_coords_from_reference_line(geometries, reference_line) ==
    LET distances == reference_line_distances(FirstColumn(reference_line))
    IN [i \in 1..Len(reference_line) |->
           <<reference_line[i][1],
             reference_line[i][2] + MultiGeomValue(geometries, distances[i])>>]

lane_offset_line(road) ==
    IF road.lane_offsets = <<>>
    THEN road.reference_line
    ELSE global_coords_from_reference_line(road.lane_offsets, road.reference_line)

\* An array without entries.
NoValues(column) == <<>>

\* np.zeros_like
zeros_like(column) == [i \in 1..Len(column) |-> 0]

z_coordinates(road) ==
    LET distances == reference_line_distances(FirstColumn(road.reference_line))
    IN IF road.elevations # <<>>
       THEN [i \in 1..Len(distances) |-> MultiGeomValue(road.elevations, distances[i])]
       ELSE zeros_like(FirstColumn(road.reference_line))

Unset == [set |-> FALSE, value |-> <<>>]
Cached(value) == [set |-> TRUE, value |-> value]

LaneOffsetLine ==
    /\ part.phase = "road"
    /\ ~part.lane_offset_line.set
    /\ part' = [part EXCEPT !.lane_offset_line = Cached(lane_offset_line(part))]
    /\ UNCHANGED <<netVars, lane, path>>

ZCoordinates ==
    /\ part.phase = "road"
    /\ ~part.z_coordinates.set
    /\ part' = [part EXCEPT !.z_coordinates = Cached(z_coordinates(part))]
    /\ UNCHANGED <<netVars, lane, path>>

\* Lanes without a roadMark element and with one.
LanesOfRoad ==
    {l \in LanesWithMarks : Len(l.lane_xml.roadMarks) <= 1
                            /\ \A i \in 1..Len(l.lane_xml.roadMarks) :
                                  l.lane_xml.roadMarks[i] = [sOffset |-> <<>>, type |-> "solid"]}

InitRoad ==
    /\ NoNetwork
    /\ lane \in LanesOfRoad
    /\ \E resolution \in 1..MaxResolution, samples \in 2..MaxSamples,
          lane_offsets \in Profiles, elevations \in Profiles :
          part = [phase |-> "road",
                  reference_line |-> PlanarLine(resolution, samples),
                  lane_offsets |-> lane_offsets, elevations |-> elevations,
                  lane_offset_line |-> Unset, z_coordinates |-> Unset]
    /\ path = NoPath

NextRoad == LaneOffsetLine \/ ZCoordinates \/ RoadMarks

SpecRoad == InitRoad /\ [][NextRoad]_vars

----------------------------------------------------------------------------
(* Lane: the direction of traffic flow along the centre line.              *)

\* The rule attribute of the road: <<>> when the road declares none.
TrafficRules == {<<>>, <<"RHT">>, <<"LHT">>, <<"other">>}

\* Road.traffic_orientation.
traffic_orientation(rule) ==
    LET xodr_str_traffic_orientation == IF rule = <<>> THEN "RHT" ELSE rule[1]
    IN IF xodr_str_traffic_orientation = "RHT" THEN "RIGHT"
       ELSE IF xodr_str_traffic_orientation = "LHT" THEN "LEFT"
       ELSE "ValueError"

\* np.flip(line, axis=0)
Flip(line) == [i \in 1..Len(line) |-> line[Len(line) + 1 - i]]

\* A test that looks at the side of the lane only.
FlowsOppositeOnPositiveSide(l) == ~(l.id < 0)

_traffic_flows_in_opposite_direction_to_centre_line(l) ==
    (l.id < 0) # (l.traffic_orientation = "RIGHT")

traffic_flow_line(l) ==
    IF _traffic_flows_in_opposite_direction_to_centre_line(l)
    THEN Flip(l.centre_line)
    ELSE l.centre_line

CentreLines == {line \in Paths : Len(line) >= 2}

\* The road resolves its rule; the lanes of its sections are built with the result.
TrafficOrientation ==
    /\ lane.traffic_orientation = "unset"
    /\ lane' = [lane EXCEPT !.traffic_orientation = traffic_orientation(lane.rule)]
    /\ UNCHANGED <<netVars, part, path>>

TrafficFlowLine ==
    /\ lane.traffic_orientation \in {"RIGHT", "LEFT"}
    /\ lane.op = "none"
    /\ lane' = [lane EXCEPT !.op = "traffic_flow_line", !.result = traffic_flow_line(lane)]
    /\ UNCHANGED <<netVars, part, path>>

InitFlow ==
    /\ NoNetwork
    /\ \E id \in LaneIds, rule \in TrafficRules, centre_line \in CentreLines :
          lane = [id |-> id, rule |-> rule, traffic_orientation |-> "unset",
                  centre_line |-> centre_line, op |-> "none", result |-> <<>>]
    /\ part = NoPart
    /\ path = NoPath

NextFlow == TrafficOrientation \/ TrafficFlowLine

SpecFlow == InitFlow /\ [][NextFlow]_vars

----------------------------------------------------------------------------
(* converter: convert_road_markings, for one lane.                         *)

\* The end of a range: <<>> for None, <<s>> for the value s.
OpenEnd == <<>>

\* Ranges that all run to the open end.
OpenRanges(s_values) ==
    [k \in 1..Len(s_values) |-> [start |-> s_values[k], end |-> OpenEnd]]

\* zip(s_values, s_values[1::] + [None])
s_ranges(s_values) ==
    [k \in 1..Len(s_values) |->
        [start |-> s_values[k],
         end |-> IF k < Len(s_values) THEN <<s_values[k + 1]>> ELSE OpenEnd]]

\* The number of points MultiGeom returns for the range: the samples of the
\* section reference line, one per unit of distance, that lie in [s_start, s_end).
SegmentPoints(l, range) ==
    Cardinality({d \in 0..(l.lane_section_reference_line.points - 1) :
                    /\ range.start <= d
                    /\ range.end # OpenEnd => d < range.end[1]})

\* len(boundary_geometry) for a call that returns an array.
BoundaryGeometryLen(l, range) ==
    IF get_boundary_line_segment(l) = "reference_line"
    THEN l.lane_section_reference_line.points
    ELSE SegmentPoints(l, range)

\* The features kept: one per mark whose segment has at least 2 points.
RECURSIVE KeptFeatures(_, _, _, _)
KeptFeatures(l, marks, ranges, k) ==
    IF k > Len(marks) THEN <<>>
    ELSE (IF BoundaryGeometryLen(l, ranges[k]) < 2
          THEN <<>>
          ELSE <<[s_offset |-> marks[k].s_offset, type |-> marks[k].type,
                  points |-> BoundaryGeometryLen(l, ranges[k])]>>)
         \o KeptFeatures(l, marks, ranges, k + 1)

\* [err, marks, requests, features]: requests are the ranges passed to
\* get_boundary_line_segment, features the records appended.
convert_road_markings(l) ==
    LET marks == road_marks(l)
        ranges == s_ranges([k \in 1..Len(marks) |-> marks[k].s_offset])
        outcome == get_boundary_line_segment(l)
        none == [err |-> "none", marks |-> marks, requests |-> <<>>, features |-> <<>>]
    IN IF Len(marks) = 0 THEN none
       ELSE IF outcome = "None"
            THEN [none EXCEPT !.err = "TypeError", !.requests = <<ranges[1]>>]
       ELSE IF outcome \in {"IndexError", "NotImplementedError"}
            THEN [none EXCEPT !.err = outcome, !.requests = <<ranges[1]>>]
       ELSE [none EXCEPT !.requests = ranges,
                         !.features = KeptFeatures(l, marks, ranges, 1)]

ConvertRoadMarkings ==
    /\ lane.op = "none"
    /\ lane' = [lane EXCEPT !.op = "convert_road_markings",
                            !.result = convert_road_markings(lane)]
    /\ UNCHANGED <<netVars, part, path>>

\* Lanes with any list of road marks, any section reference line, with or
\* without width records, with or without border records, of type none or not.
LanesWithMarkedBoundary ==
    {NewLane(LaneXml(0 - 1, NoLinkXml, type, widths, borders, marks), line) :
        type \in {"none", "driving"}, widths \in 0..1, borders \in 0..1,
        marks \in SeqsUpTo(RoadMarkXmls, MaxMarks), line \in ReferenceLines}

InitMarks ==
    /\ NoNetwork
    /\ lane \in LanesWithMarkedBoundary
    /\ part = NoPart
    /\ path = NoPath

NextMarks == ConvertRoadMarkings

SpecMarks == InitMarks /\ [][NextMarks]_vars

----------------------------------------------------------------------------
(* Lane: the lanes that traffic flows on to.                               *)

MaxCandidates == 2

\* A linked lane, as far as traffic_flow_successors reads it.
LinkedLanes == [id : LaneIds \ {0}, traffic_orientation : {"RIGHT", "LEFT"}]

\* An entry of successor_data or predecessor_data: (lane, connection_position).
LaneLinks == [lane : LinkedLanes, connection_position : {"BEGINNING", "END"}]

\* A selection that reads successor_data whatever the direction of flow.
AlwaysSuccessorData(l) == l.successor_data

\* "if self._traffic_flows_in_opposite_direction_to_centre_line: ... else: ..."
FlowSuccessorData(l) ==
    IF _traffic_flows_in_opposite_direction_to_centre_line(l)
    THEN l.predecessor_data
    ELSE l.successor_data

\* The test of the loop body that raises ValueError.
UnexpectedContact(link) ==
    IF _traffic_flows_in_opposite_direction_to_centre_line(link.lane)
    THEN link.connection_position # "END"
    ELSE link.connection_position # "BEGINNING"

traffic_flow_successors(l) ==
    LET successor_data == FlowSuccessorData(l)
    IN IF \E i \in 1..Len(successor_data) : UnexpectedContact(successor_data[i])
       THEN [kind |-> "ValueError", lanes |-> {}]
       ELSE [kind |-> "lanes",
             lanes |-> {successor_data[i].lane : i \in 1..Len(successor_data)}]

TrafficFlowSuccessors ==
    /\ lane.op = "none"
    /\ lane' = [lane EXCEPT !.op = "traffic_flow_successors",
                            !.result = traffic_flow_successors(lane)]
    /\ UNCHANGED <<netVars, part, path>>

\* A lane with at most MaxCandidates links between its two lists.
InitSucc ==
    /\ NoNetwork
    /\ \E id \in LaneIds, orientation \in {"RIGHT", "LEFT"},
          links \in SeqsUpTo(LaneLinks, MaxCandidates) :
          \E k \in 0..Len(links) :
              lane = [id |-> id, traffic_orientation |-> orientation,
                      successor_data |-> SubSeq(links, 1, k),
                      predecessor_data |-> SubSeq(links, k + 1, Len(links)),
                      op |-> "none", result |-> [kind |-> "none", lanes |-> {}]]
    /\ part = NoPart
    /\ path = NoPath

NextSucc == TrafficFlowSuccessors

SpecSucc == InitSucc /\ [][NextSucc]_vars

----------------------------------------------------------------------------
(* Properties of the linking pass.                                         *)

RoadSections(r) == {<<r, i>> : i \in 1..NSec(r)}
RegisteredSections == UNION {RoadSections(r) : r \in SeqRange(road_ids_to_object)}

PassSucceeded == pc = "idle" /\ call.outcome = "ok"

Reciprocal(X) ==
    LET s == ls_successor_data[X]
        p == ls_predecessor_data[X]
    IN /\ s.cp = "BEGINNING" => ls_predecessor_data[s.sec] = SectionLink(X, "END")
       /\ s.cp = "END" => ls_successor_data[s.sec] = SectionLink(X, "END")
       /\ p.cp = "END" => ls_successor_data[p.sec] = SectionLink(X, "BEGINNING")
       /\ p.cp = "BEGINNING" => ls_predecessor_data[p.sec] = SectionLink(X, "BEGINNING")

\* A road end is the start or the end of a road; a declared road-typed link joins two.
RoadEnd(e) == <<e.elementId, from_contact_point_str(e.contactPoint)>>

DeclaredLinks ==
    {{<<r, "BEGINNING">>, RoadEnd(doc[r].preds[1])} :
        r \in {x \in SeqRange(road_ids_to_object) : IsRoadElem(doc[x].preds)}}
    \cup
    {{<<r, "END">>, RoadEnd(doc[r].succs[1])} :
        r \in {x \in SeqRange(road_ids_to_object) : IsRoadElem(doc[x].succs)}}

\* No road end is named by two declared links that join different pairs of ends.
NoContestedRoadEnd ==
    \A l1, l2 \in DeclaredLinks : l1 \cap l2 # {} => l1 = l2

\* C1 (as stated): after the linking pass every lane-section link is reciprocal
\* with a consistent contact point, whatever road-typed links the roads declare.
C1_ReciprocalAlways ==
    PassSucceeded => \A X \in RegisteredSections : Reciprocal(X)

\* C1 (amended): after the linking pass every lane-section link is reciprocal with
\* a consistent contact point, provided no road end is named by two declared
\* road-typed links that join different pairs of road ends.
C1_ReciprocalUncontested ==
    (PassSucceeded /\ NoContestedRoadEnd) => \A X \in RegisteredSections : Reciprocal(X)

\* Two roads name each other's ends consistently from both sides and are linked.
C1_Witness ==
    /\ PassSucceeded
    /\ NoContestedRoadEnd
    /\ \E a, b \in SeqRange(road_ids_to_object) :
          /\ a # b
          /\ IsRoadElem(doc[a].succs) /\ RoadEnd(doc[a].succs[1]) = <<b, "END">>
          /\ IsRoadElem(doc[b].succs) /\ RoadEnd(doc[b].succs[1]) = <<a, "END">>
          /\ ls_successor_data[LastSection(a)] = SectionLink(LastSection(b), "END")
          /\ ls_successor_data[LastSection(b)] = SectionLink(LastSection(a), "END")

OnlyRoadLinksAre(a, b) ==
    /\ IsRoadElem(doc[a].succs) /\ RoadEnd(doc[a].succs[1]) = <<b, "BEGINNING">>
    /\ IsRoadElem(doc[b].preds) /\ RoadEnd(doc[b].preds[1]) = <<a, "END">>
    /\ ~IsRoadElem(doc[a].preds)
    /\ ~IsRoadElem(doc[b].succs)
    /\ \A c \in Roads \ {a, b} : ~IsRoadElem(doc[c].preds) /\ ~IsRoadElem(doc[c].succs)

PassLinks(p) == <<p.rp, p.rs, p.lp, p.ls>>

\* C3: a linking pass that ends over the same set of roads as the pass before it
\* leaves every Road's and every Lane Section's predecessor_data and
\* successor_data as they were at the end of that earlier pass.
C3_LinkingIdempotent ==
    [][(pc = "linking" /\ pc' = "idle" /\ passes # NoPass
            /\ passes.arena = road_ids_to_object)
          => PassLinks(passes') = PassLinks(passes)]_vars

\* A second pass has ended over an arena whose roads are linked across roads and
\* across the lane sections of one road.
C3_Witness ==
    /\ PassSucceeded
    /\ passes.repeat
    /\ \E a, b \in Roads :
          /\ a # b
          /\ NSec(a) > 1
          /\ ls_successor_data[LastSection(a)].sec[1] = b
          /\ ls_successor_data[FirstSection(a)].sec = <<a, 2>>

Malformed(r) == doc[r].links > 1 \/ Len(doc[r].preds) > 1 \/ Len(doc[r].succs) > 1

\* C4: the linking pass raises ValueError at a road exactly when that road has
\* more than one link element, predecessor or successor: no such road is ever
\* linked, a pass that stops at such a road stops with ValueError, and a pass
\* that succeeds has met none.
C4_MultipleLinksRaise ==
    /\ \A r \in call.linked : ~Malformed(r)
    /\ call.raisedAt # 0 => (Malformed(call.raisedAt) <=> call.outcome = "ValueError")
    /\ PassSucceeded => \A r \in SeqRange(road_ids_to_object) : ~Malformed(r)

\* A pass has raised ValueError at a road with two successors, after linking a road.
C4_Witness ==
    /\ pc = "idle"
    /\ call.outcome = "ValueError"
    /\ Len(doc[call.raisedAt].succs) > 1
    /\ call.linked # {}

\* C6: while the linking pass runs, every road the call selected is registered;
\* a call hands roads to its caller only after the pass has visited every
\* registered road, and a call that raised hands over none.
C6_LinkedBeforeReturned ==
    /\ pc = "linking" => SeqRange(call.roads) \subseteq SeqRange(road_ids_to_object)
    /\ PassSucceeded =>
          /\ call.linked = SeqRange(road_ids_to_object)
          /\ SeqRange(call.returned) \subseteq call.linked
    /\ (pc = "idle" /\ call.outcome # "ok") => call.returned = <<>>

\* A call has returned two roads, one of them linked to the other.
C6_Witness ==
    /\ PassSucceeded
    /\ Len(call.returned) > 1
    /\ call.linked = SeqRange(road_ids_to_object)
    /\ \E a \in SeqRange(call.returned) : road_successor_data[a].road \notin {0, a}

----------------------------------------------------------------------------
(* Properties of Lane.                                                     *)

DeclaredIds(l) == SeqRange(l.lane_xml.link.successor) \cup SeqRange(l.lane_xml.link.predecessor)

\* C5: successor_ids and predecessor_ids never contain 0, whatever ids the link
\* element declares, and both are empty for the lane whose own id is 0.
C5_NoLaneZeroInConnectivity ==
    lane.op \in {"successor_ids", "predecessor_ids"} =>
        /\ 0 \notin SeqRange(lane.result.ids)
        /\ lane.lane_xml.id = 0 => lane.result.ids = <<>>

\* A lane other than the centre lane declares successors 0 and another id, and
\* successor_ids has returned the other id alone.
C5_Witness ==
    /\ lane.op = "successor_ids"
    /\ lane.lane_xml.id # 0
    /\ 0 \in SeqRange(lane.lane_xml.link.successor)
    /\ Len(lane.lane_xml.link.successor) = 2
    /\ Len(lane.result.ids) = 1

Occurrences(seq, x) == Cardinality({i \in 1..Len(seq) : seq[i] = x})

DeclaredMarks(l) == [i \in 1..Len(l.lane_xml.roadMarks) |-> RoadMark(l.lane_xml.roadMarks[i])]

Offsets(marks) == [i \in 1..Len(marks) |-> marks[i].s_offset]

\* C8: road_marks returns the declared road marks, each as often as it is declared,
\* in non-decreasing order of s_offset; marks declared at 2, 0, 5 come back as 0, 2, 5.
C8_RoadMarksSorted ==
    lane.op = "road_marks" =>
        LET declared == DeclaredMarks(lane)
            returned == lane.result.marks
        IN /\ Len(returned) = Len(declared)
           /\ \A m \in SeqRange(declared) \cup SeqRange(returned) :
                 Occurrences(returned, m) = Occurrences(declared, m)
           /\ \A i \in 1..(Len(returned) - 1) : returned[i].s_offset <= returned[i + 1].s_offset
           /\ Offsets(declared) = <<2, 0, 5>> => Offsets(returned) = <<0, 2, 5>>

\* Marks declared at 2, 0, 5 have been returned at 0, 2, 5.
C8_Witness ==
    /\ lane.op = "road_marks"
    /\ Offsets(DeclaredMarks(lane)) = <<2, 0, 5>>
    /\ Offsets(lane.result.marks) = <<0, 2, 5>>

\* C9: on a section reference line of at least 2 points, get_boundary_line_segment
\* raises NotImplementedError exactly for a lane with both width and border records
\* and for a lane with neither whose type is not none.
C9_UnsupportedRepresentation ==
    (/\ lane.op = "get_boundary_line_segment"
     /\ lane.lane_section_reference_line.given
     /\ lane.lane_section_reference_line.points >= 2) =>
        (lane.result.kind = "NotImplementedError" <=>
            \/ lane.lane_xml.widths > 0 /\ lane.lane_xml.borders > 0
            \/ lane.lane_xml.widths = 0 /\ lane.lane_xml.borders = 0
                  /\ lane.lane_xml.type # "none")

\* A driving lane without width and border records has raised on a 2-point line.
C9_Witness ==
    /\ lane.op = "get_boundary_line_segment"
    /\ lane.lane_section_reference_line.given
    /\ lane.lane_section_reference_line.points >= 2
    /\ lane.lane_xml.widths = 0 /\ lane.lane_xml.borders = 0
    /\ lane.lane_xml.type = "driving"
    /\ lane.result.kind = "NotImplementedError"

----------------------------------------------------------------------------
(* Properties of the lane-section partition.                               *)

ReferenceLineLength == part.reference_line[Len(part.reference_line)]

Within(a, b, eps) == a - b <= eps /\ b - a <= eps

\* Consecutive ranges meet, the first starts at 0 and the last ends at the
\* reference-line length, each within eps.
ContiguousCover(sections, eps) ==
    /\ \A i \in 1..(Len(sections) - 1) :
          Within(sections[i].s_end, sections[i + 1].s_start, eps)
    /\ Within(sections[1].s_start, 0, eps)
    /\ Within(sections[Len(sections)].s_end, ReferenceLineLength, eps)

NonDecreasingFromZero(starts) ==
    /\ starts[1] = 0
    /\ \A i \in 1..(Len(starts) - 1) : starts[i] <= starts[i + 1]

IncreasingBelow(starts, length) ==
    /\ \A i \in 1..(Len(starts) - 1) : starts[i] < starts[i + 1]
    /\ \A i \in 1..Len(starts) : starts[i] < length

\* C7 (as stated): for every list of declared starts the ranges of a partitioned
\* road are contiguous and cover [0, reference-line length) within the epsilon.
C7_RangesContiguousAlways ==
    part.phase = "partitioned" => ContiguousCover(part.lane_sections, FallbackEpsilon)

\* C7 (amended): for declared starts that begin at 0 and never decrease, the
\* ranges of a partitioned road meet and cover [0, reference-line length) within
\* the fallback's 0.1, also for starts at or beyond the length; they do so
\* exactly, each range non-empty, when the starts increase and lie below the length.
C7_RangesContiguousSorted ==
    (part.phase = "partitioned" /\ NonDecreasingFromZero(part.starts)) =>
        /\ Len(part.lane_sections) = Len(part.starts)
        /\ ContiguousCover(part.lane_sections, FallbackEpsilon)
        /\ \A i \in 1..Len(part.lane_sections) :
              part.lane_sections[i].s_start < part.lane_sections[i].s_end
        /\ IncreasingBelow(part.starts, ReferenceLineLength) =>
              ContiguousCover(part.lane_sections, 0)

\* A road with three sections declared from 0 on, in order, the last one beyond
\* the reference-line length, has been partitioned.
C7_Witness ==
    /\ part.phase = "partitioned"
    /\ NonDecreasingFromZero(part.starts)
    /\ Len(part.lane_sections) = 3
    /\ part.starts[3] > ReferenceLineLength
    /\ part.starts[2] < ReferenceLineLength
    /\ part.lane_sections[3].s_start = ReferenceLineLength - FallbackEpsilon

----------------------------------------------------------------------------
(* Properties of interpolate_path.                                         *)

TotalChordLength(vertices) == CumulativeChords(vertices)[Len(vertices)]

\* C10: interpolate_path returns at least 2 points for every path and resolution,
\* and exactly the path's first and last vertex when the path's total chord
\* length is below the resolution.
C10_AtLeastTwoPoints ==
    path.phase = "done" =>
        /\ path.result.kind = "points"
        /\ path.result.rows >= 2
        /\ TotalChordLength(path.path_vertices) < path.resolution =>
              path.result.points =
                  <<path.path_vertices[1], path.path_vertices[Len(path.path_vertices)]>>

----------------------------------------------------------------------------
(* Properties of fix_zero_directions.                                      *)

\* C11: on an array of at least one row fix_zero_directions raises ValueError
\* exactly when every row is all-zero; otherwise it returns an array of the same
\* shape without an all-zero row, the rows that were not zero unchanged.
C11_ZeroRowsRepaired ==
    path.phase = "done" =>
        /\ path.result.kind = "ValueError" <=> ZeroRows(path.dirs) = Len(path.dirs)
        /\ path.result.kind # "ValueError" =>
              /\ path.result.kind = "array"
              /\ Len(path.result.dirs) = Len(path.dirs)
              /\ ZeroRows(path.result.dirs) = 0
              /\ \A i \in 1..Len(path.dirs) :
                    ~IsZeroRow(path.dirs[i]) => path.result.dirs[i] = path.dirs[i]

\* An array whose only non-zero row is the last of four has been repaired.
C11_Witness ==
    /\ path.phase = "done"
    /\ Len(path.dirs) = 4
    /\ ZeroRows(path.dirs) = 3
    /\ ~IsZeroRow(path.dirs[4])
    /\ path.result.kind = "array"
    /\ ZeroRows(path.result.dirs) = 0

----------------------------------------------------------------------------
(* Properties of the reference-line geometries.                            *)

NonDecreasing(seq) == \A i \in 1..(Len(seq) - 1) : seq[i] <= seq[i + 1]

\* C12: reference_line_geometries returns the declared geometry segments in
\* ascending order of s for every document order, and the reference line stacks
\* them in that order.
C12_GeometriesSortedByS ==
    /\ part.phase \in {"geometries", "reference_line"} =>
          /\ NonDecreasing([i \in 1..Len(part.geometries) |-> part.geometries[i].s])
          /\ \A g \in SeqRange(part.plan_view) \cup SeqRange(part.geometries) :
                Occurrences(part.geometries, g) = Occurrences(part.plan_view, g)
    /\ part.phase = "reference_line" => NonDecreasing(part.stacked)

----------------------------------------------------------------------------
(* Properties of the traffic flow line.                                    *)

KeepsOrder(l) == l.result = l.centre_line
ReversesOrder(l) == l.result = Flip(l.centre_line)

\* C13 (as stated): the traffic flow line keeps the centre line's point order for a
\* negative lane id under right-hand traffic and reverses it in every other case.
C13_ReversedUnlessNegativeRight ==
    lane.op = "traffic_flow_line" =>
        IF lane.id < 0 /\ lane.traffic_orientation = "RIGHT"
        THEN KeepsOrder(lane)
        ELSE ReversesOrder(lane)

\* C13 (amended): the traffic flow line keeps the centre line's point order for a
\* negative lane id under right-hand traffic and for a non-negative lane id under
\* left-hand traffic, and reverses it in the two other combinations.
C13_ReversedWhenSideAndRuleDiffer ==
    lane.op = "traffic_flow_line" =>
        IF (lane.id < 0) = (lane.traffic_orientation = "RIGHT")
        THEN KeepsOrder(lane)
        ELSE ReversesOrder(lane)

\* A lane with a positive id on a left-hand road has kept a centre line whose
\* reversal differs from it.
C13_Witness ==
    /\ lane.op = "traffic_flow_line"
    /\ lane.id > 0
    /\ lane.rule = <<"LHT">>
    /\ Flip(lane.centre_line) # lane.centre_line
    /\ KeepsOrder(lane)

----------------------------------------------------------------------------
(* Properties of get_roads.                                                *)

Increasing(seq) == \A i, j \in 1..Len(seq) : i < j => seq[i] < seq[j]

\* C14: a call of get_roads that returns, returns in document order exactly the
\* roads of the document whose id is not among the ids to avoid, which are the
\* connecting road ids when include_connecting_roads is False and none otherwise,
\* whatever calls were made before.
C14_ReturnsFilteredDocumentOrder ==
    (pc = "idle" /\ call.outcome = "ok") =>
        /\ call.ids_to_avoid \in {{}, connecting}
        /\ Increasing(call.returned)
        /\ SeqRange(call.returned) =
               {r \in 1..Len(doc) : r \notin call.ids_to_avoid}

\* A call without the connecting roads returns fewer roads than the document has,
\* after an earlier call with them has registered more roads than this call returns.
C14_Witness ==
    /\ pc = "idle"
    /\ call.outcome = "ok"
    /\ call.ids_to_avoid # {}
    /\ call.returned # <<>>
    /\ Len(call.returned) < Len(doc)
    /\ Len(road_ids_to_object) > Len(call.returned)

IsPrefix(s, t) == Len(s) <= Len(t) /\ \A i \in 1..Len(s) : s[i] = t[i]

OneObjectPerId ==
    \A i, j \in 1..Len(road_ids_to_object) :
        road_ids_to_object[i] = road_ids_to_object[j] => i = j

ReturnsRegisteredObjects ==
    call.outcome = "ok" => SeqRange(call.returned) \subseteq SeqRange(road_ids_to_object)

\* C15: over any sequence of get_roads calls road_ids_to_object holds at most one
\* Road per road id, a step only appends to it and leaves every earlier binding in
\* place, and the roads a call returns are the ones bound in it.
C15_RoadsConstructedOnce ==
    /\ [](OneObjectPerId /\ ReturnsRegisteredObjects)
    /\ [][IsPrefix(road_ids_to_object, road_ids_to_object')]_vars

\* A call has returned roads without constructing any: its pass ran over the arena
\* the pass before it ran over.
C15_Witness ==
    /\ pc = "idle"
    /\ call.outcome = "ok"
    /\ call.returned # <<>>
    /\ passes.repeat

----------------------------------------------------------------------------
(* Properties of absent optional elements.                                 *)

\* C16: a road without a laneOffset element has its reference line as lane offset
\* line; a road without an elevation element has one z value per sample of the
\* reference line, each 0; a lane without a roadMark element has no road marks.
C16_AbsentElementsGiveDefaults ==
    /\ (part.lane_offset_line.set /\ part.lane_offsets = <<>>) =>
           part.lane_offset_line.value = part.reference_line
    /\ (part.z_coordinates.set /\ part.elevations = <<>>) =>
           /\ Len(part.z_coordinates.value) = Len(part.reference_line)
           /\ \A i \in 1..Len(part.z_coordinates.value) : part.z_coordinates.value[i] = 0
    /\ (lane.op = "road_marks" /\ lane.lane_xml.roadMarks = <<>>) =>
           lane.result = MarksResult(<<>>)

\* All three properties have been read on a road and a lane that declare none of
\* the three elements.
C16_Witness ==
    /\ part.lane_offsets = <<>>
    /\ part.elevations = <<>>
    /\ lane.lane_xml.roadMarks = <<>>
    /\ part.lane_offset_line.set
    /\ part.z_coordinates.set
    /\ Len(part.z_coordinates.value) >= 2
    /\ lane.op = "road_marks"

----------------------------------------------------------------------------
(* Properties of the length of an interpolated path.                       *)

\* C17: interpolate_path returns a path whose arc length is at most the total chord
\* length L of the de-duplicated input and at least L minus one resolution step,
\* for every input and resolution.
C17_ArcLengthWithinOneStep ==
    path.phase = "done" =>
        /\ path.result.kind = "points"
        /\ path.result.points # <<>>
        /\ LET L == TotalChordLength(FirstOccurrences(path.path_vertices))
               returned == TotalChordLength(path.result.points)
           IN returned <= L /\ L - returned <= path.resolution

----------------------------------------------------------------------------
(* Properties of the links between the lane sections of one road.          *)

ConsecutiveLinked(r, i) ==
    /\ ls_successor_data[<<r, i>>] = SectionLink(<<r, i + 1>>, "BEGINNING")
    /\ ls_predecessor_data[<<r, i + 1>>] = SectionLink(<<r, i>>, "END")

\* C18: after a linking pass that ran to its end, every two consecutive lane
\* sections i and i+1 of every road in the arena are linked to each other:
\* i's successor is (i+1, BEGINNING) and i+1's predecessor is (i, END), whether or
\* not the road declares a link element.
C18_ConsecutiveSectionsLinked ==
    PassSucceeded =>
        \A r \in SeqRange(road_ids_to_object) :
            \A i \in 1..(NSec(r) - 1) : ConsecutiveLinked(r, i)

----------------------------------------------------------------------------
(* What the linking pass writes.                                           *)

----------------------------------------------------------------------------
(* Properties of the clipped sub-lines of the lane sections.               *)

\* The arc length at which a point of the straight reference line lies.
ArcLengthOf(point) == point - part.reference_line[1]

\* C20: the sub-line clipped for a lane section's range starts at the point at arc
\* length s_start, ends at the point at arc length s_end, and holds no point
\* before s_start or beyond s_end.
C20_ClippedToRange ==
    part.phase = "partitioned" =>
        \A i \in 1..Len(part.lane_sections) :
            LET section == part.lane_sections[i]
                points == section.reference_line
            IN /\ ArcLengthOf(points[1]) = section.s_start
               /\ ArcLengthOf(points[Len(points)]) = section.s_end
               /\ \A k \in 1..Len(points) :
                     /\ section.s_start <= ArcLengthOf(points[k])
                     /\ ArcLengthOf(points[k]) <= section.s_end

----------------------------------------------------------------------------
(* Properties of the fallback for empty and inverted ranges.               *)

\* The declared start of the i-th section and its end after clamping.
DeclaredStart(i) == part.starts[i]
ClampedEnd(i) ==
    LET next == IF i < Len(part.starts) THEN part.starts[i + 1] ELSE ReferenceLineLength
    IN IF next > ReferenceLineLength THEN ReferenceLineLength ELSE next

EmptyRange(i) == DeclaredStart(i) >= ClampedEnd(i)

SomeEmptyRange == \E i \in 1..Len(part.starts) : EmptyRange(i)

\* C21 (as stated): a road with an empty or inverted declared range is partitioned
\* without failure, and the section of such a range keeps its declared start and
\* has its end shrunk by the epsilon.
C21_FallbackShrinksEnd ==
    (part.phase # "declared" /\ SomeEmptyRange) =>
        /\ part.phase = "partitioned"
        /\ \A i \in 1..Len(part.lane_sections) :
              EmptyRange(i) =>
                  /\ part.lane_sections[i].s_start = DeclaredStart(i)
                  /\ part.lane_sections[i].s_end = ClampedEnd(i) - FallbackEpsilon

\* C21 (amended): the section of an empty or inverted declared range keeps its
\* clamped end and gets the start end - epsilon; every other section keeps its
\* declared start; a road is either partitioned or its partitioning raises
\* RuntimeError, and it raises RuntimeError only with an empty or inverted range
\* whose clamped end is 0.
C21_FallbackMovesStart ==
    /\ part.phase = "partitioned" =>
          \A i \in 1..Len(part.lane_sections) :
              /\ part.lane_sections[i].s_end = ClampedEnd(i)
              /\ part.lane_sections[i].s_start =
                     IF EmptyRange(i) THEN ClampedEnd(i) - FallbackEpsilon
                     ELSE DeclaredStart(i)
    /\ part.phase \in {"declared", "partitioned", "RuntimeError"}
    /\ part.phase = "RuntimeError" =>
          \E i \in 1..Len(part.starts) : EmptyRange(i) /\ ClampedEnd(i) = 0

\* A partitioned road has an inverted range whose section starts the epsilon
\* before its end, away from the declared start.
C21_Witness ==
    /\ part.phase = "partitioned"
    /\ \E i \in 1..Len(part.lane_sections) :
          /\ DeclaredStart(i) > ClampedEnd(i)
          /\ ClampedEnd(i) > FallbackEpsilon
          /\ part.lane_sections[i].s_start = ClampedEnd(i) - FallbackEpsilon
          /\ part.lane_sections[i].s_end = ClampedEnd(i)

----------------------------------------------------------------------------
(* Properties of the sample distances of interpolate_path.                 *)

\* C22: interpolate_path returns one point per sample distance; the sample
\* distances start at 0, increase strictly and are one resolution step apart,
\* except possibly the last interval.
C22_SamplesOneStepApart ==
    path.phase = "done" =>
        LET d == new_distances(path.path_vertices, path.resolution)
        IN /\ path.result.kind = "points"
           /\ Len(path.result.points) = Len(d)
           /\ d[1] = 0
           /\ \A i \in 1..(Len(d) - 1) : d[i] < d[i + 1]
           /\ \A i \in 1..(Len(d) - 2) : d[i + 1] - d[i] = path.resolution

----------------------------------------------------------------------------
(* Properties of traffic_flow_successors.                                  *)

Candidates(l) ==
    IF (l.id < 0) # (l.traffic_orientation = "RIGHT")
    THEN l.predecessor_data
    ELSE l.successor_data

\* C23: the candidates of traffic_flow_successors are the predecessor links of a
\* lane that flows opposite to its centre line and the successor links of any
\* other lane; it raises ValueError when a candidate that flows opposite is not
\* linked at END or a candidate that does not is not linked at BEGINNING, and
\* otherwise returns exactly the set of candidate lanes.
C23_FlowSuccessors ==
    lane.op = "traffic_flow_successors" =>
        LET candidates == Candidates(lane)
            opposite(c) == (c.lane.id < 0) # (c.lane.traffic_orientation = "RIGHT")
            bad == {i \in 1..Len(candidates) :
                       \/ opposite(candidates[i]) /\ candidates[i].connection_position # "END"
                       \/ ~opposite(candidates[i])
                            /\ candidates[i].connection_position # "BEGINNING"}
        IN IF bad # {}
           THEN lane.result.kind = "ValueError"
           ELSE /\ lane.result.kind = "lanes"
                /\ lane.result.lanes = {candidates[i].lane : i \in 1..Len(candidates)}

\* A lane that flows opposite to its centre line has returned its two predecessor
\* lanes, one of which flows opposite and one of which does not.
C23_Witness ==
    /\ lane.op = "traffic_flow_successors"
    /\ lane.id > 0
    /\ lane.traffic_orientation = "RIGHT"
    /\ lane.result.kind = "lanes"
    /\ Cardinality(lane.result.lanes) = 2
    /\ \E a, b \in lane.result.lanes : a.id < 0 /\ b.id > 0
                                       /\ a.traffic_orientation = b.traffic_orientation

----------------------------------------------------------------------------
(* Properties of convert_road_markings.                                    *)

RECURSIVE MarksWithSegment(_, _, _)
MarksWithSegment(marks, ranges, k) ==
    IF k > Len(marks) THEN <<>>
    ELSE (IF BoundaryGeometryLen(lane, ranges[k]) >= 2
          THEN <<[s_offset |-> marks[k].s_offset, type |-> marks[k].type]>>
          ELSE <<>>)
         \o MarksWithSegment(marks, ranges, k + 1)

\* C24: when the conversion of a lane with n >= 1 road marks completes, the k-th
\* request is for the range from the k-th sorted mark's s_offset to the next
\* mark's s_offset, and to the open end for the last mark; the records produced
\* are, in order, one for each mark whose segment has at least 2 points and none
\* for any other mark.
C24_MarkRangesAndRecords ==
    (/\ lane.op = "convert_road_markings"
     /\ lane.result.err = "none"
     /\ Len(lane.result.marks) >= 1) =>
        LET marks == lane.result.marks
            requests == lane.result.requests
            n == Len(marks)
        IN /\ Len(requests) = n
           /\ \A k \in 1..n : requests[k].start = marks[k].s_offset
           /\ \A k \in 1..(n - 1) :
                 /\ requests[k].end = <<marks[k + 1].s_offset>>
                 /\ requests[k].end = <<requests[k + 1].start>>
           /\ requests[n].end = OpenEnd
           /\ [k \in 1..Len(lane.result.features) |->
                  [s_offset |-> lane.result.features[k].s_offset,
                   type |-> lane.result.features[k].type]]
                = MarksWithSegment(marks, requests, 1)
           /\ \A k \in 1..Len(lane.result.features) : lane.result.features[k].points >= 2

\* A lane with three road marks at different offsets has been converted: some
\* mark produced a record and some mark did not.
C24_Witness ==
    /\ lane.op = "convert_road_markings"
    /\ lane.result.err = "none"
    /\ Len(lane.result.marks) = 3
    /\ lane.result.marks[1].s_offset < lane.result.marks[2].s_offset
    /\ lane.result.marks[2].s_offset < lane.result.marks[3].s_offset
    /\ Len(lane.result.features) \in {1, 2}

----------------------------------------------------------------------------
(* The order of the writes to the link fields of the lane sections.        *)

Write(side, sec, value) == [side |-> side, sec |-> sec, value |-> value]

\* The lane section a declared link element connects to, and its contact point.
ContactPosition(e) == from_contact_point_str(e.contactPoint)
ContactSection(e) ==
    IF ContactPosition(e) = "BEGINNING" THEN FirstSection(e.elementId)
    ELSE LastSection(e.elementId)
ContactSide(e) == IF ContactPosition(e) = "BEGINNING" THEN "p" ELSE "s"

PredecessorWrites(r) ==
    IF ~IsRoadElem(doc[r].preds) THEN <<>>
    ELSE LET e == doc[r].preds[1]
         IN <<Write(ContactSide(e), ContactSection(e), SectionLink(FirstSection(r), "BEGINNING")),
              Write("p", FirstSection(r), SectionLink(ContactSection(e), ContactPosition(e)))>>

RECURSIVE PairWrites(_, _)
PairWrites(r, i) ==
    IF i >= NSec(r) THEN <<>>
    ELSE <<Write("s", <<r, i>>, SectionLink(<<r, i + 1>>, "BEGINNING")),
           Write("p", <<r, i + 1>>, SectionLink(<<r, i>>, "END"))>> \o PairWrites(r, i + 1)

SuccessorWrites(r) ==
    IF ~IsRoadElem(doc[r].succs) THEN <<>>
    ELSE LET e == doc[r].succs[1]
         IN <<Write("s", LastSection(r), SectionLink(ContactSection(e), ContactPosition(e))),
              Write(ContactSide(e), ContactSection(e), SectionLink(LastSection(r), "END"))>>

\* What processing road r writes, in the order it writes it.
WritesOf(r) ==
    IF doc[r].links = 0 THEN <<>>
    ELSE PredecessorWrites(r) \o PairWrites(r, 1) \o SuccessorWrites(r)

\* The writes of a pass over the first n roads of the arena.
RECURSIVE WritesOfPass(_)
WritesOfPass(n) ==
    IF n = 0 THEN <<>>
    ELSE WritesOfPass(n - 1) \o WritesOf(road_ids_to_object[n])

LastWritten(side, sec) ==
    LET writes == WritesOfPass(Len(road_ids_to_object))
        hits == {k \in 1..Len(writes) : writes[k].side = side /\ writes[k].sec = sec}
    IN IF hits = {} THEN UnlinkedSectionData
       ELSE writes[CHOOSE k \in hits : \A m \in hits : m <= k].value

\* C25: after a linking pass that ran to its end, each link field of each lane
\* section holds the single value written to it last, where the roads write in
\* the order of road_ids_to_object; a field nobody writes is unset.
C25_LastWriterWins ==
    PassSucceeded =>
        \A X \in RegisteredSections :
            /\ ls_predecessor_data[X] = LastWritten("p", X)
            /\ ls_successor_data[X] = LastWritten("s", X)

\* Road 1 names the start of road 2 as its predecessor and road 2 names the start
\* of road 1 as its successor: the start of road 1 holds what road 2, processed
\* last, wrote there, not what road 1 wrote.
C25_Witness ==
    /\ PassSucceeded
    /\ road_ids_to_object = <<1, 2>>
    /\ IsRoadElem(doc[1].preds) /\ RoadEnd(doc[1].preds[1]) = <<2, "BEGINNING">>
    /\ IsRoadElem(doc[2].succs) /\ RoadEnd(doc[2].succs[1]) = <<1, "BEGINNING">>
    /\ ls_predecessor_data[FirstSection(1)] = SectionLink(LastSection(2), "END")
    /\ ls_predecessor_data[FirstSection(1)] # SectionLink(FirstSection(2), "BEGINNING")

----------------------------------------------------------------------------
(* Links declared on one side only.                                        *)

\* The declared road-typed links that name the road end e: <<road, element>>.
LinksNaming(e) ==
    {<<r, "predecessor">> : r \in {x \in SeqRange(road_ids_to_object) :
                                      IsRoadElem(doc[x].preds) /\ RoadEnd(doc[x].preds[1]) = e}}
    \cup
    {<<r, "successor">> : r \in {x \in SeqRange(road_ids_to_object) :
                                    IsRoadElem(doc[x].succs) /\ RoadEnd(doc[x].succs[1]) = e}}

\* Road a declares successor = road b at contact point start; b declares no predecessor.
OneSidedLink(a, b) ==
    /\ a \in SeqRange(road_ids_to_object)
    /\ b \in SeqRange(road_ids_to_object)
    /\ Len(doc[a].succs) = 1
    /\ doc[a].succs[1] = [elementType |-> "road", elementId |-> b, contactPoint |-> "start"]
    /\ doc[b].preds = <<>>

\* The road-level fields hold the road's own road-typed declaration or nothing.
RoadLevelFromOwnDeclaration ==
    \A r \in SeqRange(road_ids_to_object) :
        /\ road_predecessor_data[r] =
               IF Len(doc[r].preds) = 1 /\ doc[r].preds[1].elementType = "road"
               THEN RoadLink(doc[r].preds[1].elementId,
                             IF doc[r].preds[1].contactPoint = "start" THEN "BEGINNING" ELSE "END")
               ELSE UnlinkedRoadData
        /\ road_successor_data[r] =
               IF Len(doc[r].succs) = 1 /\ doc[r].succs[1].elementType = "road"
               THEN RoadLink(doc[r].succs[1].elementId,
                             IF doc[r].succs[1].contactPoint = "start" THEN "BEGINNING" ELSE "END")
               ELSE UnlinkedRoadData

\* C26 (as stated): after the pass, whenever road A declares successor = road B at
\* start and B declares no predecessor, the first lane section of B has the last
\* lane section of A at END as predecessor and B's road-level predecessor is
\* unset; road-level fields hold the road's own road-typed declaration or nothing.
C26_OneSidedLinkAlways ==
    PassSucceeded =>
        /\ \A a, b \in Roads :
              OneSidedLink(a, b) =>
                  /\ ls_predecessor_data[FirstSection(b)] = SectionLink(LastSection(a), "END")
                  /\ road_predecessor_data[b] = UnlinkedRoadData
        /\ RoadLevelFromOwnDeclaration

\* C26 (amended): the same, for a road B whose start is named by no other declared
\* road-typed link than A's successor.
C26_OneSidedLinkUncontested ==
    PassSucceeded =>
        /\ \A a, b \in Roads :
              (OneSidedLink(a, b) /\ LinksNaming(<<b, "BEGINNING">>) = {<<a, "successor">>}) =>
                  /\ ls_predecessor_data[FirstSection(b)] = SectionLink(LastSection(a), "END")
                  /\ road_predecessor_data[b] = UnlinkedRoadData
        /\ RoadLevelFromOwnDeclaration

\* Road 2 declares a junction as predecessor and road 1 at start as successor;
\* road 1, processed first, declares nothing and has got road 2's last section as
\* predecessor of its first section.
C26_Witness ==
    /\ PassSucceeded
    /\ OneSidedLink(2, 1)
    /\ LinksNaming(<<1, "BEGINNING">>) = {<<2, "successor">>}
    /\ doc[2].preds = <<JunctionElem>>
    /\ road_predecessor_data[2] = UnlinkedRoadData
    /\ road_predecessor_data[1] = UnlinkedRoadData
    /\ NSec(2) > 1
    /\ ls_predecessor_data[FirstSection(1)] = SectionLink(LastSection(2), "END")

----------------------------------------------------------------------------
(* Properties of the ranges of the lane sections.                          *)

\* C27: every lane section of a partitioned road has s_start < s_end and s_end at
\* most the reference-line length, for every list of declared starts.
C27_RangesNonEmptyWithinLine ==
    part.phase = "partitioned" =>
        \A i \in 1..Len(part.lane_sections) :
            /\ part.lane_sections[i].s_start < part.lane_sections[i].s_end
            /\ part.lane_sections[i].s_end <= ReferenceLineLength

\* A road is partitioned whose declared starts are out of order, hold a duplicate
\* and reach beyond the reference line.
C27_Witness ==
    /\ part.phase = "partitioned"
    /\ Len(part.starts) = 3
    /\ part.starts[1] > part.starts[2]
    /\ part.starts[2] = part.starts[3]
    /\ part.starts[1] > ReferenceLineLength
    /\ ReferenceLineLength > 0

----------------------------------------------------------------------------
(* Properties of the cut points between lane sections.                     *)

\* C28: the clipped lines of two consecutive lane sections whose ranges meet at
\* a distance c share the point at c: the first line ends where the second
\* starts; every clipped line has at least 2 points, and a partitioning that
\* fails raises RuntimeError.
C28_SharedCutPoint ==
    /\ part.phase \in {"declared", "partitioned", "RuntimeError"}
    /\ part.phase = "partitioned" =>
          /\ \A i \in 1..Len(part.lane_sections) :
                Len(part.lane_sections[i].reference_line) >= 2
          /\ \A i \in 1..(Len(part.lane_sections) - 1) :
                LET first == part.lane_sections[i]
                    second == part.lane_sections[i + 1]
                IN first.s_end = second.s_start =>
                       first.reference_line[Len(first.reference_line)]
                           = second.reference_line[1]

----------------------------------------------------------------------------
(* Which row replaces a zero row.                                          *)

NonZeroBefore(dirs, i) == {j \in 1..(i - 1) : ~IsZeroRow(dirs[j])}
NonZeroAfter(dirs, i) == {j \in (i + 1)..Len(dirs) : ~IsZeroRow(dirs[j])}

\* The input row the claim names for row i.
ExpectedRow(dirs, i) ==
    IF ~IsZeroRow(dirs[i]) THEN dirs[i]
    ELSE IF NonZeroBefore(dirs, i) # {}
         THEN dirs[CHOOSE j \in NonZeroBefore(dirs, i) : \A m \in NonZeroBefore(dirs, i) : m <= j]
         ELSE dirs[CHOOSE j \in NonZeroAfter(dirs, i) : \A m \in NonZeroAfter(dirs, i) : j <= m]

\* The array after the first forward and the first backward sweep.
FirstCycle(dirs) == BackwardPass(ForwardPass(dirs, 1), Len(dirs) - 2)

\* C29: fix_zero_directions returns every non-zero input row unchanged and, for
\* every all-zero input row, the closest preceding non-zero input row when there
\* is one and the closest following non-zero input row otherwise; after one
\* forward and one backward sweep no interior row is zero.
C29_ZeroRowsTakePrecedingRow ==
    (path.phase = "done" /\ path.result.kind = "array") =>
        /\ Len(path.result.dirs) = Len(path.dirs)
        /\ \A i \in 1..Len(path.dirs) : path.result.dirs[i] = ExpectedRow(path.dirs, i)
        /\ InteriorFixed(FirstCycle(path.dirs))

\* The rows zero, (1,0), zero, (0,1) have been repaired to (1,0), (1,0), (1,0),
\* (0,1): the third row took the preceding row, the first row the following one.
C29_Witness ==
    /\ path.phase = "done"
    /\ path.dirs = <<(<<0, 0>>), (<<1, 0>>), (<<0, 0>>), (<<0, 1>>)>>
    /\ path.result.kind = "array"
    /\ path.result.dirs = <<(<<1, 0>>), (<<1, 0>>), (<<1, 0>>), (<<0, 1>>)>>

----------------------------------------------------------------------------
(* Properties of get_coordinate_and_direction.                             *)

\* C30: on a reference line of n >= 2 samples get_coordinate_and_direction raises
\* no IndexError for any s; the index of the point lies in 0..n-1 and the index of
\* the direction vector in 0..n-2; for s at or beyond the length of the line the
\* point is the last sample and the direction that of the last segment.
C30_IndicesInRange ==
    (path.phase = "done" /\ Len(path.reference_line) >= 2) =>
        LET line == path.reference_line
            n == Len(line)
            length == TotalChordLength(line)
        IN /\ path.result.kind = "ok"
           /\ path.result.s_index \in 0..(n - 1)
           /\ path.result.dir_index \in 0..(n - 2)
           /\ path.result.point = line[path.result.s_index + 1]
           /\ path.s >= length =>
                 /\ path.result.point = line[n]
                 /\ path.result.direction = line[n] - line[n - 1]

\* A point beyond the end of a line of three samples has been asked for: the
\* last sample and the last segment's direction were returned.
C30_Witness ==
    /\ path.phase = "done"
    /\ Len(path.reference_line) = 3
    /\ path.s > TotalChordLength(path.reference_line)
    /\ path.result.kind = "ok"
    /\ path.result.s_index = 2
    /\ path.result.dir_index = 1
    /\ path.result.direction # 0

====
